---- MODULE Spec2Model ----
(***************************************************************************)
(* Model of arduino_pca9685_controller.ino: a two-axis servo controller.   *)
(* Bytes arrive on the serial port, serialEvent() collects them into       *)
(* inputString, loop() hands a completed line to processCommand(), which   *)
(* parses "X:<angle> Y:<angle>", clamps, drives two PCA9685 channels and   *)
(* answers on the serial port.                                             *)
(*                                                                         *)
(* Texts are sequences of one-character strings.  The target is the AVR    *)
(* board named in the sketch header: int is 16 bits wide, long is 32.      *)
(***************************************************************************)
EXTENDS Integers, Sequences, FiniteSets, TLC

VARIABLES
    posX,            \* int posX: current X servo position (degrees)
    posY,            \* int posY: current Y servo position (degrees)
    inputString,     \* String inputString: the line buffer
    stringComplete,  \* boolean stringComplete: the line-complete flag
    pc,              \* position of the main thread: "setup", "loop", "serialEvent"
                     \*   (and "process", "clear" inside loop(), in SpecSteps)
    rx,              \* bytes received by the UART and not yet read (Serial.available())
    out,             \* everything the sketch has output so far, in order:
                     \*   PWM writes and serial lines
    wire,            \* bytes of the line the host is transmitting, not yet received
    sent             \* the command lines the host has sent so far (history)

vars == <<posX, posY, inputString, stringComplete, pc, rx, out, wire, sent>>

----------------------------------------------------------------------------
(* Program constants *)

SERVO_X_CHANNEL == 0
SERVO_Y_CHANNEL == 1
SERVOMIN == 150
SERVOMAX == 600
USMIN == 600
USMAX == 2400

----------------------------------------------------------------------------
(* Characters and integer widths *)

Digits == <<"0", "1", "2", "3", "4", "5", "6", "7", "8", "9">>

IsDigit(c) == \E d \in 1..10 : Digits[d] = c

DigitVal(c) == (CHOOSE d \in 1..10 : Digits[d] = c) - 1

\* isspace() of the C library, on the characters the model uses
IsSpace(c) == c \in {" ", "\t", "\n", "\r", "\f"}

\* conversion of a long to the 16-bit int of the target (int newX = ...toInt())
ToInt16(v) == ((v + 32768) % 65536) - 32768

\* conversion of an int to the unsigned int parameters of String::substring
ToUInt16(v) == v % 65536

MinOf(S) == CHOOSE m \in S : \A k \in S : m <= k

----------------------------------------------------------------------------
(* Arduino String and number primitives, as processCommand uses them *)

RECURSIVE LTrim(_)
LTrim(s) ==
    IF s = <<>> THEN s
    ELSE IF IsSpace(Head(s)) THEN LTrim(Tail(s)) ELSE s

RECURSIVE RTrim(_)
RTrim(s) ==
    IF s = <<>> THEN s
    ELSE IF IsSpace(s[Len(s)]) THEN RTrim(SubSeq(s, 1, Len(s) - 1)) ELSE s

\* String::trim(): strips leading and trailing whitespace
trim(s) == RTrim(LTrim(s))

\* String::indexOf(pattern, from): 0-based index of the first occurrence at
\* or after from, -1 when there is none
indexOf(s, pat, from) ==
    LET hits == {i \in from..(Len(s) - Len(pat)) :
                    SubSeq(s, i + 1, i + Len(pat)) = pat}
    IN  IF hits = {} THEN -1 ELSE MinOf(hits)

\* String::substring(left, right): both indices are unsigned, swapped when
\* left > right, right capped at the length; characters [left, right)
substring(s, left, right) ==
    LET l  == ToUInt16(left)
        r  == ToUInt16(right)
        lo == IF l > r THEN r ELSE l
        hi == IF l > r THEN l ELSE r
    IN  IF lo >= Len(s) THEN <<>>
        ELSE SubSeq(s, lo + 1, IF hi > Len(s) THEN Len(s) ELSE hi)

RECURSIVE LeadingDigits(_, _)
LeadingDigits(s, acc) ==
    IF s = <<>> \/ ~IsDigit(Head(s)) THEN acc
    ELSE LeadingDigits(Tail(s), acc * 10 + DigitVal(Head(s)))

RECURSIVE SkipToDigit(_)
SkipToDigit(s) ==
    IF s = <<>> \/ IsDigit(Head(s)) THEN s ELSE SkipToDigit(Tail(s))

\* a conversion that looks for the first digit instead of giving up
toIntLenient(s) == LeadingDigits(SkipToDigit(s), 0)

\* a conversion that accepts a text only when all of it is the number
toIntStrict(s) ==
    LET t   == LTrim(s)
        neg == t # <<>> /\ Head(t) = "-"
        u   == IF t # <<>> /\ Head(t) \in {"-", "+"} THEN Tail(t) ELSE t
        v   == LeadingDigits(u, 0)
    IN  IF \E i \in 1..Len(u) : ~IsDigit(u[i]) THEN 0
        ELSE IF neg THEN 0 - v ELSE v

\* String::toInt() is atol(): skips whitespace, takes an optional sign and
\* the leading digits, stops at the first other character, 0 when there is
\* no digit.  The texts of this model stay inside the range of long.
toInt(s) ==
    LET t   == LTrim(s)
        neg == t # <<>> /\ Head(t) = "-"
        u   == IF t # <<>> /\ Head(t) \in {"-", "+"} THEN Tail(t) ELSE t
        v   == LeadingDigits(u, 0)
    IN  IF neg THEN 0 - v ELSE v

\* the constrain(x, lo, hi) macro
\* constrain() that forgets the upper bound
constrainLowOnly(x, lo, hi) == IF x < lo THEN lo ELSE x

constrain(x, lo, hi) == IF x < lo THEN lo ELSE IF x > hi THEN hi ELSE x

\* map() with the output bounds taken in the wrong order
mapReversed(x, in_min, in_max, out_min, out_max) ==
    ((x - in_min) * (out_min - out_max)) \div (in_max - in_min) + out_max

\* map(x, in_min, in_max, out_min, out_max) of the Arduino core
map(x, in_min, in_max, out_min, out_max) ==
    ((x - in_min) * (out_max - out_min)) \div (in_max - in_min) + out_min

RECURSIVE DecimalDigits(_)
DecimalDigits(n) ==
    IF n < 10 THEN <<Digits[n + 1]>>
    ELSE Append(DecimalDigits(n \div 10), Digits[(n % 10) + 1])

\* Serial.print(int): the decimal numeral, with a minus sign when negative
Decimal(n) == IF n < 0 THEN <<"-">> \o DecimalDigits(0 - n) ELSE DecimalDigits(n)

----------------------------------------------------------------------------
(* Outputs *)

\* pwm.writeMicroseconds(channel, microseconds)
writeMicroseconds(channel, microseconds) ==
    [dev |-> "pwm", channel |-> channel, us |-> microseconds]

\* Serial.println(text): one line on the serial port, ended by CR LF
println(text) == [dev |-> "serial", text |-> text \o <<"\r", "\n">>]

\* setServoAngle() computing PCA9685 ticks (SERVOMIN, SERVOMAX) where
\* writeMicroseconds() wants microseconds
setServoAngleTicks(channel, angle) ==
    LET a     == constrain(angle, 0, 180)
        pulse == ToInt16(map(a, 0, 180, SERVOMIN, SERVOMAX))
    IN  writeMicroseconds(channel, pulse)

\* setServoAngle(channel, angle): the write it issues
setServoAngle(channel, angle) ==
    LET a            == constrain(angle, 0, 180)
        microseconds == ToInt16(map(a, 0, 180, USMIN, USMAX))
    IN  writeMicroseconds(channel, microseconds)

ReadyBanner ==
    <<"P","C","A","9","6","8","5"," ","S","e","r","v","o"," ",
      "C","o","n","t","r","o","l","l","e","r"," ","R","e","a","d","y">>

UsageBanner ==
    <<"S","e","n","d"," ","c","o","m","m","a","n","d","s"," ","a","s",":"," ",
      "X",":","<","a","n","g","l","e",">"," ","Y",":","<","a","n","g","l","e",">">>

OkPrefix == <<"O","K"," ","X",":">>

YPrefix == <<" ","Y",":">>

ErrorText ==
    <<"E","R","R","O","R",":"," ","I","n","v","a","l","i","d"," ",
      "c","o","m","m","a","n","d"," ","f","o","r","m","a","t">>

----------------------------------------------------------------------------
(* processCommand(command) *)

\* int xIndex = command.indexOf("X:")
xIndex(cmd) == indexOf(cmd, <<"X", ":">>, 0)

\* int yIndex = command.indexOf("Y:")
yIndex(cmd) == indexOf(cmd, <<"Y", ":">>, 0)

\* the marker test with || in place of &&
markersFoundEither(cmd) == xIndex(cmd) >= 0 \/ yIndex(cmd) >= 0

\* if (xIndex >= 0 && yIndex >= 0)
markersFound(cmd) == xIndex(cmd) >= 0 /\ yIndex(cmd) >= 0

\* the X value read from one character too early
newXOffByOne(cmd) ==
    LET xStart == xIndex(cmd) + 1
        xEnd   == indexOf(cmd, <<" ">>, xStart)
        xStr   == substring(cmd, xStart, xEnd)
    IN  ToInt16(toInt(xStr))

\* "Extract X value": the text from behind the marker to the next space
\* (to the end when xEnd is -1), converted and stored in an int
newX(cmd) ==
    LET xStart == xIndex(cmd) + 2
        xEnd   == indexOf(cmd, <<" ">>, xStart)
        xStr   == substring(cmd, xStart, xEnd)
    IN  ToInt16(toInt(xStr))

\* "Extract Y value": the text from behind the marker to the end
newY(cmd) ==
    LET yStart == yIndex(cmd) + 2
        yStr   == substring(cmd, yStart, Len(cmd))
    IN  ToInt16(toInt(yStr))

\* processCommand() printing the positions it was called with
processCommandStale(command, px, py) ==
    LET cmd == trim(command)
    IN  IF markersFound(cmd)
        THEN LET x == constrain(newX(cmd), 0, 180)
                 y == constrain(newY(cmd), 0, 180)
             IN  [posX |-> x,
                  posY |-> y,
                  out  |-> <<setServoAngle(SERVO_X_CHANNEL, x),
                             setServoAngle(SERVO_Y_CHANNEL, y),
                             println(OkPrefix \o Decimal(px)
                                     \o YPrefix \o Decimal(py))>>]
        ELSE [posX |-> px,
              posY |-> py,
              out  |-> <<println(ErrorText)>>]

\* processCommand() that answers before it moves the servos, Y first
processCommandReordered(command, px, py) ==
    LET cmd == trim(command)
    IN  IF markersFound(cmd)
        THEN LET x == constrain(newX(cmd), 0, 180)
                 y == constrain(newY(cmd), 0, 180)
             IN  [posX |-> x,
                  posY |-> y,
                  out  |-> <<println(OkPrefix \o Decimal(x)
                                     \o YPrefix \o Decimal(y)),
                             setServoAngle(SERVO_Y_CHANNEL, y),
                             setServoAngle(SERVO_X_CHANNEL, x)>>]
        ELSE [posX |-> px,
              posY |-> py,
              out  |-> <<println(ErrorText)>>]

\* processCommand(command), called with the positions px and py: the new
\* positions and the outputs, in order
processCommand(command, px, py) ==
    LET cmd == trim(command)
    IN  IF markersFound(cmd)
        THEN LET x == constrain(newX(cmd), 0, 180)
                 y == constrain(newY(cmd), 0, 180)
             IN  [posX |-> x,
                  posY |-> y,
                  out  |-> <<setServoAngle(SERVO_X_CHANNEL, x),
                             setServoAngle(SERVO_Y_CHANNEL, y),
                             println(OkPrefix \o Decimal(x)
                                     \o YPrefix \o Decimal(y))>>]
        ELSE [posX |-> px,
              posY |-> py,
              out  |-> <<println(ErrorText)>>]

\* serialEvent() that collects the bytes and never raises the flag
RECURSIVE serialEventNoFlag(_, _, _)
serialEventNoFlag(avail, str, complete) ==
    IF avail = <<>> THEN [inputString |-> str, stringComplete |-> complete]
    ELSE serialEventNoFlag(Tail(avail), Append(str, Head(avail)), complete)

\* serialEvent() that keeps the newline out of the buffer
RECURSIVE serialEventDropsNewline(_, _, _)
serialEventDropsNewline(avail, str, complete) ==
    IF avail = <<>> THEN [inputString |-> str, stringComplete |-> complete]
    ELSE LET inChar == Head(avail)
         IN  serialEventDropsNewline(Tail(avail),
                                     IF inChar = "\n" THEN str ELSE Append(str, inChar),
                                     complete \/ inChar = "\n")

\* serialEvent(): reads every available byte, appends it to the buffer and
\* raises the flag on a newline
RECURSIVE serialEvent(_, _, _)
serialEvent(avail, str, complete) ==
    IF avail = <<>> THEN [inputString |-> str, stringComplete |-> complete]
    ELSE LET inChar == Head(avail)
         IN  serialEvent(Tail(avail), Append(str, inChar),
                         complete \/ inChar = "\n")

----------------------------------------------------------------------------
(* The host: the upstream sender of command lines *)

\* a field that is no number
NoNumber == <<"a", "b", "c">>

\* the tokens a line of an "extra" format carries besides its two fields:
\* before the X field, between the fields, behind the Y digits
ExtraTokens(fmt) ==
    CASE fmt = "extraPre"   -> [pre |-> <<"f","o","o">>, mid |-> <<>>, post |-> <<>>]
      [] fmt = "extraMid"   -> [pre |-> <<>>, mid |-> <<"f","o","o">>, post |-> <<>>]
      [] fmt = "extraPost"  -> [pre |-> <<>>, mid |-> <<>>, post |-> <<"f","o","o">>]
      [] fmt = "extraNum"   -> [pre |-> <<"7">>, mid |-> <<"8">>, post |-> <<"9">>]
      [] fmt = "extraAll"   -> [pre |-> <<"g","o"," ","t","o">>, mid |-> <<"-","5"," ","u","p">>,
                                post |-> <<"d","e","g"," ","1","2">>]
      [] fmt = "extraLate"  -> [pre |-> <<>>, mid |-> <<"M","A","X",":","7">>,
                                post |-> <<"K","E","Y",":","9">>]
      [] fmt = "extraMaxPre" -> [pre |-> <<"M","A","X",":","7">>, mid |-> <<>>, post |-> <<>>]
      [] fmt = "extraKeyMid" -> [pre |-> <<>>, mid |-> <<"K","E","Y",":","9">>, post |-> <<>>]

ExtraFormats ==
    {"extraPre", "extraMid", "extraPost", "extraNum", "extraAll", "extraLate",
     "extraMaxPre", "extraKeyMid"}

\* the text of a command line as the host writes it; every line ends with
\* the line terminator
Text(l) ==
    CASE l.fmt = "plain"   -> <<"X", ":">> \o Decimal(l.a) \o <<" ", "Y", ":">>
                              \o Decimal(l.b) \o <<"\n">>
      [] l.fmt = "noX"     -> <<"Y", ":">> \o Decimal(l.b) \o <<"\n">>
      [] l.fmt = "noY"     -> <<"X", ":">> \o Decimal(l.a) \o <<"\n">>
      [] l.fmt = "lower"   -> <<"x", ":">> \o Decimal(l.a) \o <<" ", "y", ":">>
                              \o Decimal(l.b) \o <<"\n">>
      [] l.fmt = "garbage" -> <<"g", "a", "r", "b", "a", "g", "e", "\n">>
      [] l.fmt = "empty"   -> <<"\n">>
      [] l.fmt = "badX"    -> <<"X", ":">> \o NoNumber \o <<" ", "Y", ":">>
                              \o Decimal(l.b) \o <<"\n">>
      [] l.fmt = "badY"    -> <<"X", ":">> \o Decimal(l.a) \o <<" ", "Y", ":">>
                              \o NoNumber \o <<"\n">>
      [] l.fmt = "junkX"   -> <<"X", ":", "a", "7", " ", "Y", ":">>
                              \o Decimal(l.b) \o <<"\n">>
      [] l.fmt = "junkY"   -> <<"X", ":">> \o Decimal(l.a)
                              \o <<" ", "Y", ":", "a", "7", "\n">>
      [] l.fmt = "emptyX"  -> <<"X", ":", " ", "Y", ":">> \o Decimal(l.b) \o <<"\n">>
      [] l.fmt = "emptyY"  -> <<"X", ":">> \o Decimal(l.a) \o <<" ", "Y", ":", "\n">>
      [] l.fmt \in ExtraFormats ->
            LET t == ExtraTokens(l.fmt)
            IN  (IF t.pre = <<>> THEN <<>> ELSE t.pre \o <<" ">>)
                \o <<"X", ":">> \o Decimal(l.a) \o <<" ">>
                \o (IF t.mid = <<>> THEN <<>> ELSE t.mid \o <<" ">>)
                \o <<"Y", ":">> \o Decimal(l.b)
                \o (IF t.post = <<>> THEN <<>> ELSE <<" ">> \o t.post)
                \o <<"\n">>

Line(f, a, b) == [fmt |-> f, a |-> a, b |-> b]

\* a line that carries both markers
WellFormed(l) == l.fmt = "plain"

\* the angle the protocol asks for: the value saturated to [0, 180]
Saturated(v) == IF v < 0 THEN 0 ELSE IF v > 180 THEN 180 ELSE v

\* number of lines the host sends in a run of the controller
MaxLines == 2

\* the lines the host sends in a run of the controller
HostLines ==
    { Line("plain", 1, 2), Line("plain", 3, 4), Line("plain", 999, -5),
      Line("noX", 0, 7), Line("empty", 0, 0) }

----------------------------------------------------------------------------
(* The controller *)

Init ==
    /\ posX = 90
    /\ posY = 90
    /\ inputString = <<>>
    /\ stringComplete = FALSE
    /\ pc = "setup"
    /\ rx = <<>>
    /\ out = <<>>
    /\ wire = <<>>
    /\ sent = <<>>

\* setup() that announces itself before it centres the servos
SetupBannerFirst ==
    /\ pc = "setup"
    /\ out' = out \o <<println(ReadyBanner),
                       println(UsageBanner),
                       setServoAngle(SERVO_X_CHANNEL, posX),
                       setServoAngle(SERVO_Y_CHANNEL, posY)>>
    /\ pc' = "loop"
    /\ UNCHANGED <<posX, posY, inputString, stringComplete, rx, wire, sent>>

\* setup(): centres both servos and prints the banner
Setup ==
    /\ pc = "setup"
    /\ out' = out \o <<setServoAngle(SERVO_X_CHANNEL, posX),
                       setServoAngle(SERVO_Y_CHANNEL, posY),
                       println(ReadyBanner),
                       println(UsageBanner)>>
    /\ pc' = "loop"
    /\ UNCHANGED <<posX, posY, inputString, stringComplete, rx, wire, sent>>

\* loop() that processes whatever the buffer holds, without the flag
LoopWithoutFlag ==
    /\ pc = "loop"
    /\ IF inputString # <<>>
       THEN LET r == processCommand(inputString, posX, posY)
            IN  /\ posX' = r.posX
                /\ posY' = r.posY
                /\ out' = out \o r.out
                /\ inputString' = <<>>
                /\ stringComplete' = FALSE
       ELSE UNCHANGED <<posX, posY, out, inputString, stringComplete>>
    /\ pc' = "serialEvent"
    /\ UNCHANGED <<rx, wire, sent>>

\* loop() that lowers the flag and leaves the buffer as it is
LoopKeepsBuffer ==
    /\ pc = "loop"
    /\ IF stringComplete
       THEN LET r == processCommand(inputString, posX, posY)
            IN  /\ posX' = r.posX
                /\ posY' = r.posY
                /\ out' = out \o r.out
                /\ inputString' = inputString
                /\ stringComplete' = FALSE
       ELSE UNCHANGED <<posX, posY, out, inputString, stringComplete>>
    /\ pc' = "serialEvent"
    /\ UNCHANGED <<rx, wire, sent>>

\* loop(): one iteration of the main loop
Loop ==
    /\ pc = "loop"
    /\ IF stringComplete
       THEN LET r == processCommand(inputString, posX, posY)
            IN  /\ posX' = r.posX
                /\ posY' = r.posY
                /\ out' = out \o r.out
                /\ inputString' = <<>>
                /\ stringComplete' = FALSE
       ELSE UNCHANGED <<posX, posY, out, inputString, stringComplete>>
    /\ pc' = "serialEvent"
    /\ UNCHANGED <<rx, wire, sent>>

\* serialEvent() run as soon as bytes are available, wherever the main
\* thread is, like an interrupt handler
SerialEventRunAnytime ==
    /\ pc # "setup"
    /\ IF rx # <<>>
       THEN LET r == serialEvent(rx, inputString, stringComplete)
            IN  /\ inputString' = r.inputString
                /\ stringComplete' = r.stringComplete
                /\ rx' = <<>>
       ELSE UNCHANGED <<inputString, stringComplete, rx>>
    /\ pc' = IF pc = "serialEvent" THEN "loop" ELSE pc
    /\ UNCHANGED <<posX, posY, out, wire, sent>>

\* between two iterations of loop() the core calls serialEvent() when bytes
\* are available
SerialEventRun ==
    /\ pc = "serialEvent"
    /\ IF rx # <<>>
       THEN LET r == serialEvent(rx, inputString, stringComplete)
            IN  /\ inputString' = r.inputString
                /\ stringComplete' = r.stringComplete
                /\ rx' = <<>>
       ELSE UNCHANGED <<inputString, stringComplete, rx>>
    /\ pc' = "loop"
    /\ UNCHANGED <<posX, posY, out, wire, sent>>

\* the host starts to transmit a line
HostSend(l) ==
    /\ wire = <<>>
    /\ Len(sent) < MaxLines
    /\ wire' = Text(l)
    /\ sent' = Append(sent, l)
    /\ UNCHANGED <<posX, posY, inputString, stringComplete, pc, rx, out>>

\* the UART receives the next byte (receive interrupt)
Receive ==
    /\ wire # <<>>
    /\ rx' = Append(rx, Head(wire))
    /\ wire' = Tail(wire)
    /\ UNCHANGED <<posX, posY, inputString, stringComplete, pc, out, sent>>

Next ==
    \/ Setup
    \/ Loop
    \/ SerialEventRun
    \/ \E l \in HostLines : HostSend(l)
    \/ Receive

Spec == Init /\ [][Next]_vars

\* loop() runs to its end and returns to the core
LoopReturns == pc = "loop" /\ pc' = "serialEvent"

\* The main thread never stops: setup() returns, and loop() and the check
\* for serial data are run forever in turn.  loop() can always run when the
\* main thread is at it, and only loop() moves the thread on from there, so
\* WF_pc(LoopReturns) is weak fairness of Loop.
FairSpec ==
    /\ Init /\ [][Next]_vars
    /\ WF_vars(Setup) /\ WF_vars(SerialEventRun) /\ WF_pc(LoopReturns)

----------------------------------------------------------------------------
(* loop() statement by statement: bytes keep arriving at the UART while    *)
(* loop() tests the flag, calls processCommand and clears buffer and flag. *)

\* if (stringComplete)
LoopTest ==
    /\ pc = "loop"
    /\ pc' = IF stringComplete THEN "process" ELSE "serialEvent"
    /\ UNCHANGED <<posX, posY, inputString, stringComplete, rx, out, wire, sent>>

\* processCommand(inputString)
LoopProcess ==
    /\ pc = "process"
    /\ LET r == processCommand(inputString, posX, posY)
       IN  /\ posX' = r.posX
           /\ posY' = r.posY
           /\ out' = out \o r.out
    /\ pc' = "clear"
    /\ UNCHANGED <<inputString, stringComplete, rx, wire, sent>>

\* inputString = ""; stringComplete = false
LoopClear ==
    /\ pc = "clear"
    /\ inputString' = <<>>
    /\ stringComplete' = FALSE
    /\ pc' = "serialEvent"
    /\ UNCHANGED <<posX, posY, rx, out, wire, sent>>

NextSteps ==
    \/ Setup
    \/ LoopTest
    \/ LoopProcess
    \/ LoopClear
    \/ SerialEventRun
    \/ \E l \in HostLines : HostSend(l)
    \/ Receive

SpecSteps == Init /\ [][NextSteps]_vars

----------------------------------------------------------------------------
(* One command at a time: the host sends one line, waits until the          *)
(* controller has consumed it, and sends the same line again.  The          *)
(* controller is past setup(), at any position a command can have left it.  *)

\* values beyond the servo range that the host may send
OutOfRange == {-32769, -32768, -200, -5, -1, 181, 999, 32767, 32768, 65536, 65626}

CmdValues == (0..180) \cup OutOfRange

\* values used in the lines that lack a marker
FewValues == {0, 45, 90, 180, 999, -5}

\* the formats whose X field, or Y field, is no number
BadXFormats == {"badX", "junkX", "emptyX"}

BadYFormats == {"badY", "junkY", "emptyY"}

CmdLines ==
    { Line("plain", a, b) : a \in CmdValues, b \in CmdValues }
    \cup { Line(f, a, b) : f \in {"noX", "noY", "lower"}, a \in FewValues, b \in FewValues }
    \cup { Line("garbage", 0, 0), Line("empty", 0, 0) }
    \cup { Line(f, 0, b) : f \in BadXFormats, b \in FewValues }
    \cup { Line(f, a, 0) : f \in BadYFormats, a \in FewValues }
    \cup { Line(f, a, b) : f \in ExtraFormats, a \in {0, 7, 45, 180}, b \in {0, 8, 90, 180} }

\* positions the controller starts an observation at
StartPositions == { <<90, 90>>, <<0, 180>>, <<37, 141>> }

\* how many times the host sends its line
Repeats == 2

InitCmd ==
    /\ \E p \in StartPositions : posX = p[1] /\ posY = p[2]
    /\ inputString = <<>>
    /\ stringComplete = FALSE
    /\ pc = "loop"
    /\ rx = <<>>
    /\ out = <<>>
    /\ wire = <<>>
    /\ sent = <<>>

\* the controller waits for a line: nothing received, nothing buffered
Idle == pc = "serialEvent" /\ rx = <<>> /\ inputString = <<>> /\ ~stringComplete

\* a whole line arrives while the controller is idle
Deliver(l) ==
    /\ rx' = Text(l)
    /\ sent' = Append(sent, l)
    /\ UNCHANGED <<posX, posY, inputString, stringComplete, pc, out, wire>>

\* the host sends its line
DeliverFirst == Idle /\ sent = <<>> /\ \E l \in CmdLines : Deliver(l)

\* the host sends the same line again
DeliverAgain == Idle /\ sent # <<>> /\ Len(sent) < Repeats /\ Deliver(sent[1])

NextCmd ==
    \/ Loop
    \/ SerialEventRun
    \/ DeliverFirst
    \/ DeliverAgain

SpecCmd == InitCmd /\ [][NextCmd]_vars

----------------------------------------------------------------------------
(* What the controller has output *)

SerialLines == SelectSeq(out, LAMBDA e : e.dev = "serial")

Writes == SelectSeq(out, LAMBDA e : e.dev = "pwm")

MaxOf(S) == CHOOSE m \in S : \A k \in S : k <= m

CRLF == <<"\r", "\n">>

SerialLine(text) == [dev |-> "serial", text |-> text \o CRLF]

\* the answers to commands: the serial lines other than the startup banner
Responses ==
    SelectSeq(SerialLines,
              LAMBDA e : e # SerialLine(ReadyBanner) /\ e # SerialLine(UsageBanner))

HasWrite(ch) == \E i \in 1..Len(out) : out[i].dev = "pwm" /\ out[i].channel = ch

\* the pulse width last written to a channel
LastWrite(ch) ==
    out[MaxOf({i \in 1..Len(out) : out[i].dev = "pwm" /\ out[i].channel = ch})].us

\* the line the host sent last
Current == sent[Len(sent)]

\* loop() is about to hand the host's last line, alone, to processCommand
Processing ==
    /\ pc = "loop" /\ stringComplete
    /\ sent # <<>> /\ inputString = Text(Current)

\* every line the host sent has been answered
Answered == sent # <<>> /\ Len(Responses) = Len(sent)

InRange(l) == l.fmt = "plain" /\ l.a \in 0..180 /\ l.b \in 0..180

LacksMarker(l) == l.fmt \in {"noX", "noY", "lower", "garbage", "empty"}

\* the confirmation line for angles a and b, written out
OkLine(a, b) ==
    SerialLine(<<"O", "K", " ", "X", ":">> \o Decimal(a)
               \o <<" ", "Y", ":">> \o Decimal(b))

\* the error line, written out
ErrorLine ==
    SerialLine(<<"E","R","R","O","R",":"," ","I","n","v","a","l","i","d"," ",
                 "c","o","m","m","a","n","d"," ","f","o","r","m","a","t">>)

TypeOK ==
    /\ posX \in Int /\ posY \in Int
    /\ stringComplete \in BOOLEAN
    /\ pc \in {"setup", "loop", "process", "clear", "serialEvent"}

----------------------------------------------------------------------------
(* Claims about one command (SpecCmd) *)

\* C1: processing a line X:<a> Y:<b> with a and b in [0,180] emits exactly
\* the response OK X:<a> Y:<b> and leaves the positions equal to a and b.
C1_ValidCommand ==
    [][(Processing /\ InRange(Current)) =>
          /\ SerialLines' = Append(SerialLines, OkLine(Current.a, Current.b))
          /\ posX' = Current.a
          /\ posY' = Current.b]_vars

C1_Witness ==
    /\ Answered /\ InRange(Current) /\ Current.a = 123 /\ Current.b = 7
    /\ posX = 123 /\ posY = 7
    /\ Responses[Len(Responses)] = OkLine(123, 7)

\* C2: a completed line without X: or without Y: (the empty line included)
\* leaves both positions unchanged, writes no channel and emits exactly the
\* one line ERROR: Invalid command format.
C2_MissingMarker ==
    [][(Processing /\ LacksMarker(Current)) =>
          /\ posX' = posX
          /\ posY' = posY
          /\ out' = Append(out, ErrorLine)]_vars

C2_Witness ==
    /\ Answered /\ Current.fmt = "empty"
    /\ Responses[Len(Responses)] = ErrorLine
    /\ Writes = <<>>

\* C5 as stated: for the line X:90 Y:45 the response is OK X:90 Y:45,
\* channel 0 is set to 1500 microseconds and channel 1 to 1200 microseconds.
C5_AsStated ==
    (Answered /\ Current = Line("plain", 90, 45)) =>
        /\ Responses[Len(Responses)] = OkLine(90, 45)
        /\ HasWrite(0) /\ LastWrite(0) = 1500
        /\ HasWrite(1) /\ LastWrite(1) = 1200

\* C5: for the line X:90 Y:45 the response is OK X:90 Y:45, channel 0 is set
\* to 1500 microseconds and channel 1 to 1050 microseconds, the linear
\* interpolation of 45 degrees between 600 and 2400.
C5_Scenario ==
    (Answered /\ Current = Line("plain", 90, 45)) =>
        /\ Responses[Len(Responses)] = OkLine(90, 45)
        /\ HasWrite(0) /\ LastWrite(0) = 1500
        /\ HasWrite(1) /\ LastWrite(1) = 1050

C5_Witness ==
    /\ Answered /\ Current = Line("plain", 90, 45)
    /\ Len(Writes) = 2 /\ LastWrite(0) = 1500 /\ LastWrite(1) = 1050

\* C6: when a or b lies outside [0,180] the command is not rejected: the
\* response reports the value saturated to the nearest bound, and the
\* positions are set to the saturated values.
C6_Saturation ==
    [][(Processing /\ Current.fmt = "plain" /\ ~InRange(Current)) =>
          /\ SerialLines' = Append(SerialLines,
                                   OkLine(Saturated(Current.a), Saturated(Current.b)))
          /\ posX' = Saturated(Current.a)
          /\ posY' = Saturated(Current.b)]_vars

\* C7: the mapping sends angle 0 to 600 and angle 180 to 2400 microseconds
\* and is monotonic non-decreasing over the integer angles of [0,180].
C7_Mapping ==
    (Answered /\ InRange(Current)) =>
        /\ HasWrite(0) /\ HasWrite(1)
        /\ Current.a <= Current.b => LastWrite(0) <= LastWrite(1)
        /\ Current.b <= Current.a => LastWrite(1) <= LastWrite(0)
        /\ Current.a = 0 => LastWrite(0) = 600
        /\ Current.a = 180 => LastWrite(0) = 2400
        /\ Current.b = 0 => LastWrite(1) = 600
        /\ Current.b = 180 => LastWrite(1) = 2400

C7_Witness ==
    /\ Answered /\ Current = Line("plain", 0, 180)
    /\ LastWrite(0) = 600 /\ LastWrite(1) = 2400

\* C9: processing the same well-formed line a second time yields the same
\* response line and the same positions as the first time.
C9_Idempotent ==
    [][(Processing /\ WellFormed(Current) /\ Len(sent) = 2 /\ Len(Responses) = 1) =>
          /\ posX' = posX
          /\ posY' = posY
          /\ Len(Responses') = 2
          /\ Responses'[2] = Responses[1]]_vars

C9_Witness ==
    /\ Len(sent) = 2 /\ WellFormed(Current) /\ Len(Responses) = 2
    /\ Current.a = 999 /\ Current.b = 45
    /\ Responses[1] = OkLine(180, 45) /\ Responses[2] = OkLine(180, 45)
    /\ posX = 180 /\ posY = 45

----------------------------------------------------------------------------
(* Claims about the byte stream (Spec, FairSpec) *)

\* number of bytes of the first i lines the host sent
RECURSIVE LineEnd(_)
LineEnd(i) == IF i = 0 THEN 0 ELSE LineEnd(i - 1) + Len(Text(sent[i]))

\* number of line terminators the controller has received
TerminatorsReceived == IF wire = <<>> THEN Len(sent) ELSE Len(sent) - 1

\* number of received bytes that loop() has handed over and cleared
ConsumedBytes == LineEnd(Len(sent)) - Len(wire) - Len(rx) - Len(inputString)

\* the main loop has nothing left to do
Quiescent == pc # "setup" /\ rx = <<>> /\ ~stringComplete

\* C3: once the main loop has run to quiescence, the number of response
\* lines emitted equals the number of line terminators received.
C3_OneResponsePerLine == Quiescent => Len(Responses) = TerminatorsReceived

\* C8: the line buffer holds bytes of at most one command line: a line
\* terminator in the buffer is its last byte.
C8_OneLineBuffered ==
    \A i \in 1..Len(inputString) : inputString[i] = "\n" => i = Len(inputString)

\* the well-formed lines that have been received and processed
ProcessedCommands ==
    {i \in 1..Len(sent) : LineEnd(i) <= ConsumedBytes /\ WellFormed(sent[i])}

\* the positions the last processed well-formed line asks for
CommandedPosition ==
    IF ProcessedCommands = {} THEN <<90, 90>>
    ELSE LET l == sent[MaxOf(ProcessedCommands)]
         IN  <<Saturated(l.a), Saturated(l.b)>>

\* C4: the positions equal the clamped values of the last well-formed line
\* received and processed (90 and 90 if none), and the pulse width last
\* written to channel 0 and 1 is the linear mapping of the X and Y position.
C4_PositionsReflectLastCommand ==
    /\ posX = CommandedPosition[1]
    /\ posY = CommandedPosition[2]
    /\ HasWrite(0) => LastWrite(0) = 600 + 10 * posX
    /\ HasWrite(1) => LastWrite(1) = 600 + 10 * posY

\* a line terminator has been received and its line is not yet handled
TerminatorPending == stringComplete \/ \E i \in 1..Len(rx) : rx[i] = "\n"

\* C10: whenever a line terminator has been received, the main loop
\* eventually emits a response and is idle again, flag false, buffer empty.
C10_Recovers ==
    \A n \in 0..MaxLines :
        (TerminatorPending /\ Len(Responses) = n)
            ~> (Len(Responses) > n /\ ~stringComplete /\ inputString = <<>>)

C10_Witness ==
    /\ Len(sent) = MaxLines /\ Len(Responses) >= 1
    /\ Responses[Len(Responses)] = ErrorLine
    /\ pc = "serialEvent" /\ ~stringComplete /\ inputString = <<>>

----------------------------------------------------------------------------
(* More claims about one command (SpecCmd) *)

PwmWrite(ch, us) == [dev |-> "pwm", channel |-> ch, us |-> us]

\* the outputs of a command accepted with the angles x and y, written out
AcceptedOutputs(x, y) ==
    <<PwmWrite(0, 600 + 10 * x), PwmWrite(1, 600 + 10 * y), OkLine(x, y)>>

\* C11: a line with both markers whose X or Y field is no parseable integer
\* is not reported as an error: the field counts as 0, the command is
\* dispatched (600 microseconds on that axis's channel), the position of
\* that axis becomes 0 and the response is an OK line showing 0 for it.
C11_UnparseableIsZero ==
    [][/\ (Processing /\ Current.fmt \in BadXFormats) =>
              /\ posX' = 0
              /\ posY' = Saturated(Current.b)
              /\ out' = out \o AcceptedOutputs(0, Saturated(Current.b))
       /\ (Processing /\ Current.fmt \in BadYFormats) =>
              /\ posX' = Saturated(Current.a)
              /\ posY' = 0
              /\ out' = out \o AcceptedOutputs(Saturated(Current.a), 0)]_vars

C11_Witness ==
    /\ Answered /\ Current = Line("junkX", 0, 45)
    /\ posX = 0 /\ posY = 45
    /\ out = AcceptedOutputs(0, 45)

\* a line that carries both markers, in any of the formats
BothMarkers(l) == l.fmt \in ({"plain"} \cup BadXFormats \cup BadYFormats \cup ExtraFormats)

\* a value that fits the int of the target
FitsInt(v) == v \in -32768..32767

\* C15: processing one well-formed command performs exactly two writes and
\* one serial response, in this order: channel 0 with the pulse width of the
\* clamped X angle, channel 1 with that of the clamped Y angle, then the OK
\* line; the pulse widths are those of the updated positions and the angles
\* printed are the ones whose pulse widths were written.
C15_DispatchOrder ==
    [][(Processing /\ BothMarkers(Current)) =>
          /\ posX' \in 0..180
          /\ posY' \in 0..180
          /\ out' = out \o AcceptedOutputs(posX', posY')
          /\ (Current.fmt = "plain" /\ FitsInt(Current.a)) => posX' = Saturated(Current.a)
          /\ (Current.fmt = "plain" /\ FitsInt(Current.b)) => posY' = Saturated(Current.b)]_vars

C15_Witness ==
    /\ Answered /\ Current = Line("plain", 30, 999)
    /\ posX = 30 /\ posY = 180
    /\ out = <<PwmWrite(0, 900), PwmWrite(1, 2400), OkLine(30, 180)>>

\* the two characters of pat occur next to each other in the text t
Occurs(pat, t) == \E i \in 1..(Len(t) - 1) : t[i] = pat[1] /\ t[i + 1] = pat[2]

\* no token ahead of the X field contains X:, none ahead of the Y field Y:
MarkerFree(fmt) ==
    LET t == ExtraTokens(fmt)
    IN  /\ ~Occurs(<<"X", ":">>, t.pre)
        /\ ~Occurs(<<"Y", ":">>, t.pre)
        /\ ~Occurs(<<"Y", ":">>, t.mid)

\* C16 as stated: a line X:<a> Y:<b>, a and b in [0,180], with additional
\* space-separated tokens before the X field, between the fields or after
\* the Y digits yields the same response, positions and channel writes as
\* the plain line X:<a> Y:<b>.
C16_AsStated ==
    [][(Processing /\ Current.fmt \in ExtraFormats) =>
          /\ posX' = Current.a
          /\ posY' = Current.b
          /\ out' = out \o AcceptedOutputs(Current.a, Current.b)]_vars

\* C16: the same, for additional tokens of which none ahead of the X field
\* contains X: and none ahead of the Y field contains Y: (the fields are
\* found at the first occurrence of their markers).
C16_ExtraTokensIgnored ==
    [][(Processing /\ Current.fmt \in ExtraFormats /\ MarkerFree(Current.fmt)) =>
          /\ posX' = Current.a
          /\ posY' = Current.b
          /\ out' = out \o AcceptedOutputs(Current.a, Current.b)]_vars

C16_Witness ==
    /\ Answered /\ Current = Line("extraAll", 45, 8)
    /\ posX = 45 /\ posY = 8
    /\ out = AcceptedOutputs(45, 8)

\* C18: in every reachable state both positions lie in [0,180], and every
\* write to the output driver, whatever lines were received (well-formed,
\* malformed, out of range, without a number), goes to channel 0 or 1 with a
\* pulse width in [600,2400] microseconds.
C18_Ranges ==
    /\ posX \in 0..180
    /\ posY \in 0..180
    /\ \A i \in 1..Len(out) :
          out[i].dev = "pwm" =>
             /\ out[i].channel \in {SERVO_X_CHANNEL, SERVO_Y_CHANNEL}
             /\ out[i].us \in USMIN..USMAX

C18_Witness ==
    /\ Answered /\ Current = Line("plain", 999, -5)
    /\ posX = 180 /\ posY = 0
    /\ LastWrite(SERVO_X_CHANNEL) = USMAX /\ LastWrite(SERVO_Y_CHANNEL) = USMIN

----------------------------------------------------------------------------
(* More claims about the byte stream (Spec) *)

HasNewline(t) == \E i \in 1..Len(t) : t[i] = "\n"

\* C12 as stated: the line terminator is never stored, the line buffer
\* contains no newline in any reachable state.
C12_AsStated == ~HasNewline(inputString)

\* C12: the terminator is stored like any other byte: serialEvent() appends
\* every byte it reads to the buffer, in order, and raises the flag when one
\* of them is the newline; a buffer whose flag is raised contains a newline.
C12_TerminatorStored ==
    /\ [][(pc = "serialEvent" /\ pc' = "loop" /\ rx # <<>>) =>
             /\ inputString' = inputString \o rx
             /\ stringComplete' = (stringComplete \/ HasNewline(rx))]_vars
    /\ [](stringComplete => HasNewline(inputString))

C12_Witness ==
    /\ pc = "loop" /\ stringComplete /\ sent # <<>>
    /\ inputString = Text(Line("plain", 1, 2))
    /\ inputString[Len(inputString)] = "\n"

\* C14: a partially received line waits for its terminator: as long as no
\* newline has been received since the buffer was last cleared, no response
\* is emitted, no channel is written and both positions stay as they are,
\* whatever arrives and however often loop() polls.
C14_PartialLineWaits ==
    [][(pc # "setup" /\ ~HasNewline(inputString) /\ ~HasNewline(rx)) =>
          UNCHANGED <<out, posX, posY>>]_vars

C14_Witness ==
    /\ pc = "serialEvent" /\ ~stringComplete
    /\ Len(inputString) >= 3 /\ ~HasNewline(inputString)
    /\ rx # <<>> /\ ~HasNewline(rx)
    /\ Responses = <<>> /\ Len(Writes) = 2 /\ posX = 90 /\ posY = 90

StartupOutputs ==
    <<PwmWrite(SERVO_X_CHANNEL, 1500), PwmWrite(SERVO_Y_CHANNEL, 1500),
      SerialLine(ReadyBanner), SerialLine(UsageBanner)>>

IsBanner(e) == e = SerialLine(ReadyBanner) \/ e = SerialLine(UsageBanner)

\* C17: at startup, before any command is processed, both positions are 90
\* and channels 0 and 1 are each written once with 1500 microseconds; the
\* two banner lines are emitted exactly once, after those writes and before
\* any OK or ERROR response.
C17_Startup ==
    /\ pc = "setup" => (out = <<>> /\ posX = 90 /\ posY = 90)
    /\ pc # "setup" =>
          /\ Len(out) >= 4
          /\ SubSeq(out, 1, 4) = StartupOutputs
          /\ \A i \in 5..Len(out) : ~IsBanner(out[i])
          /\ Responses = <<>> => (out = StartupOutputs /\ posX = 90 /\ posY = 90)

C17_Witness ==
    /\ pc = "loop" /\ Len(out) > 4
    /\ SubSeq(out, 1, 4) = StartupOutputs
    /\ Len(Responses) = 1 /\ Responses[1] = out[Len(out)]

\* the bytes of the first i lines the host sent, in order
RECURSIVE Stream(_)
Stream(i) == IF i = 0 THEN <<>> ELSE Stream(i - 1) \o Text(sent[i])

\* the bytes serialEvent() has read since loop() last cleared the buffer
ReadSinceClear ==
    SubSeq(Stream(Len(sent)), ConsumedBytes + 1, ConsumedBytes + Len(inputString))

\* C19: the flag and the buffer stay consistent: whenever loop() looks, the
\* flag is set exactly if serialEvent() has read a line terminator since the
\* buffer was last cleared, and with the flag down the buffer holds only
\* bytes of a line not yet terminated; when loop() has handled a completed
\* line the flag is down and the buffer is empty.
C19_FlagMatchesBuffer ==
    /\ [](pc = "loop" =>
            /\ inputString = ReadSinceClear
            /\ stringComplete <=> HasNewline(ReadSinceClear)
            /\ ~stringComplete => \A i \in 1..Len(inputString) : inputString[i] # "\n")
    /\ [][(pc = "loop" /\ stringComplete /\ pc' = "serialEvent") =>
             (~stringComplete' /\ inputString' = <<>>)]_vars

C19_Witness ==
    /\ pc = "loop" /\ ~stringComplete
    /\ Len(sent) = 2 /\ Len(Responses) = 1
    /\ inputString # <<>> /\ ConsumedBytes = Len(Text(sent[1]))

----------------------------------------------------------------------------
(* Claims about the hand-over inside loop() (SpecSteps) *)

\* C13: between the moment loop() has seen the flag and the moment it has
\* cleared buffer and flag, no byte is appended to the line buffer: only
\* the main thread's own statements change buffer, flag and positions, and
\* the buffer that is cleared is the one processCommand was given.
C13_AtomicHandOff ==
    [][(pc \in {"process", "clear"}) =>
          /\ pc' = pc => UNCHANGED <<inputString, stringComplete, posX, posY>>
          /\ pc = "process" => inputString' = inputString
          /\ pc = "clear" => (inputString' = inputString \/ inputString' = <<>>)]_vars

C13_Witness ==
    /\ pc = "clear" /\ rx # <<>> /\ wire # <<>>
    /\ stringComplete /\ inputString = Text(sent[1])
    /\ Len(Responses) = 1

====
